---- MODULE Spec2Model ----
(***************************************************************************)
(* Model of the topic-report pipelines (src/langGraph.py and               *)
(* src/kimi_k2_hands_on.py) and of the stock-analysis tool server          *)
(* (src/financial-analyst/server.py).                                      *)
(*                                                                         *)
(* The pipelines hand a StateGraph to the graph library and call ainvoke.  *)
(* The library runs the graph in supersteps: the nodes triggered for a     *)
(* superstep all read the state as it was when the superstep began, run    *)
(* concurrently, and their returned updates are applied together when all  *)
(* of them have returned.  A node is triggered for the next superstep when *)
(* ANY node with an add_edge to it ran in this one (only the list form     *)
(* add_edge([a, b], c), which neither file uses, waits for all).  The      *)
(* state keys carry no reducer, so each is a last-value channel: a write   *)
(* replaces the value, and two writes to one key in one superstep are an   *)
(* InvalidUpdateError.  An exception in a node ends the run.               *)
(***************************************************************************)
EXTENDS Integers, Sequences, FiniteSets, TLC

VARIABLES
    variant,     \* which file's pipeline runs
    topic,       \* AgentState["topic"]
    state,       \* the other AgentState keys (graph channels)
    task,        \* per node: its position in the current superstep
    pending,     \* updates returned in the current superstep, not yet applied
    failed,      \* the node whose exception ended the run, or NoNode
    runs,        \* history: completed executions per node
    writers,     \* history: per key, the nodes whose updates were applied
    prompt,      \* the section texts embedded in the last merge prompt
    searchLog,   \* history: <<node, "error" | "ok">> per search made
    llmFailed,   \* history: some completion call raised
    file,        \* stock_analysis.py on disk
    lastSaved,   \* history: code of the last save_code that reported success
    executed,    \* history: program text run_code_and_show_plot last ran, if
                 \* no save_code was called since
    reply,       \* the last tool call's returned "result" string
    raised       \* a tool call let an exception out to its caller

pvars == <<variant, topic, state, task, pending, failed, runs, writers, prompt,
           searchLog, llmFailed>>
tvars == <<file, lastSaved, executed, reply, raised>>
vars == <<pvars, tvars>>

----------------------------------------------------------------------------
(* Bounds *)
MaxHits == 1          \* hits per section of a search response
MaxCodeLen == 2       \* statements/separators in a saved code string

----------------------------------------------------------------------------
(* Python values of the AgentState keys, all as strings *)
ABSENT == "<absent>"  \* the key is not in the dict
NONE == "<None>"      \* the key holds Python None

Populated(v) == v # ABSENT /\ v # NONE

\* str.format / f-string rendering of a value
Str(v) == IF v = NONE THEN "None" ELSE v

\* dict.get(key, default): the default only when the key is absent
StateGet(st, key, default) == IF st[key] = ABSENT THEN default ELSE st[key]

Fields == {"academic", "news", "industry", "report", "output"}

Topics == {"AI in healthcare", "AI in education"}

Variants == {"langGraph", "kimi_k2_hands_on"}

NoNode == "none"

LLMFail == "<raise>"
LLMTexts == {"text a", "text b"}
LLMOutcomes == LLMTexts \cup {LLMFail}

----------------------------------------------------------------------------
(* The search tool *)

\* SerperSearchTool._run: every exception becomes an error-tagged result
SerperSearchTool_run(apiKey, http, organic, news) ==
    IF ~apiKey THEN [error |-> TRUE, organic |-> 0, news |-> 0]
    ELSE IF http # "ok" THEN [error |-> TRUE, organic |-> 0, news |-> 0]
    ELSE [error |-> FALSE, organic |-> organic, news |-> news]

SearchResults ==
    { SerperSearchTool_run(k, h, o, n) :
        k \in BOOLEAN, h \in {"ok", "fail"}, o \in 0..MaxHits, n \in 0..MaxHits }

Min(a, b) == IF a < b THEN a ELSE b

----------------------------------------------------------------------------
(* The node functions.  Each returns [raised, key, value]: the exception    *)
(* flag and the one-key update dict.                                        *)

Raise == [raised |-> TRUE, key |-> "", value |-> ""]
Update(k, v) == [raised |-> FALSE, key |-> k, value |-> v]

\* kimi_k2_chat / llm.invoke: the provider's text, or its exception
Completion(key, llm) == IF llm = LLMFail THEN Raise ELSE Update(key, llm)

academic_agent(v, st, search, llm) == Completion("academic", llm)

news_agent(v, st, search, llm) ==
    IF v = "kimi_k2_hands_on"
    THEN Completion("news", llm)
    ELSE IF search.error THEN Update("news", "Error fetching news")
    ELSE LET items == IF search.news > 0 THEN search.news
                      ELSE Min(search.organic, 5)
         IN IF Min(items, 5) > 0 THEN Update("news", "headlines")
            ELSE Update("news", "No recent news found for this topic.")

industry_agent_raising(v, st, search, llm) ==
    IF search.error THEN Raise
    ELSE IF Min(search.organic, 5) > 0 THEN Update("industry", "insights")
    ELSE Update("industry", "No industry info found.")

industry_agent(v, st, search, llm) ==
    IF search.error THEN Update("industry", "Error fetching industry insights")
    ELSE IF Min(search.organic, 5) > 0 THEN Update("industry", "insights")
    ELSE Update("industry", "No industry info found.")

\* the section texts merge_and_summarize_agent embeds in its prompt
merge_prompt(v, t, st) ==
    IF v = "kimi_k2_hands_on"
    THEN [built |-> TRUE, topic |-> t,
          academic |-> Str(StateGet(st, "academic", "No academic research found.")),
          news |-> Str(StateGet(st, "news", "No news found.")),
          industry |-> "", unset |-> {}]
    ELSE [built |-> TRUE, topic |-> t,
          academic |-> Str(StateGet(st, "academic", "")),
          news |-> Str(StateGet(st, "news", "")),
          industry |-> Str(StateGet(st, "industry", "")), unset |-> {}]

merge_and_summarize_agent(v, st, search, llm) == Completion("report", llm)

\* state["report"]: KeyError when the key is absent
output_node(v, st, search, llm) ==
    IF st["report"] = ABSENT THEN Raise ELSE Update("output", st["report"])

----------------------------------------------------------------------------
(* The graph *)

AllNodes == {"academic_agent", "news_agent", "industry_agent",
             "merge_and_summarize_agent", "output_node"}

Nodes(v) ==
    IF v = "kimi_k2_hands_on"
    THEN {"academic_agent", "news_agent", "merge_and_summarize_agent", "output_node"}
    ELSE AllNodes

\* build_graph: the add_edge calls between nodes
Edges(v) ==
    IF v = "kimi_k2_hands_on"
    THEN { <<"academic_agent", "news_agent">>,
           <<"news_agent", "merge_and_summarize_agent">>,
           <<"merge_and_summarize_agent", "output_node">> }
    ELSE { <<"academic_agent", "merge_and_summarize_agent">>,
           <<"academic_agent", "news_agent">>,
           <<"news_agent", "industry_agent">>,
           <<"industry_agent", "merge_and_summarize_agent">>,
           <<"merge_and_summarize_agent", "output_node">> }

EntryPoint == "academic_agent"

Merge == "merge_and_summarize_agent"

Pred(v, n) == {m \in Nodes(v) : <<m, n>> \in Edges(v)}

\* the AgentState keys each node function reads (besides topic)
Reads(v, n) ==
    CASE n = "merge_and_summarize_agent" ->
            IF v = "kimi_k2_hands_on" THEN {"academic", "news"}
            ELSE {"academic", "news", "industry"}
      [] n = "output_node" -> {"report"}
      [] OTHER -> {}

\* the nodes that call the search tool
Searches(v, n) ==
    IF v = "kimi_k2_hands_on" THEN n \in {"academic_agent", "news_agent"}
    ELSE n \in {"news_agent", "industry_agent"}

\* the nodes that call the completion provider
Completes(v, n) ==
    IF v = "kimi_k2_hands_on"
    THEN n \in {"academic_agent", "news_agent", "merge_and_summarize_agent"}
    ELSE n \in {"academic_agent", "merge_and_summarize_agent"}

\* arun_topic_analyzer: the initial AgentState
initial_state(v) ==
    IF v = "kimi_k2_hands_on"
    THEN [f \in Fields |-> IF f \in {"academic", "report", "output"} THEN NONE ELSE ABSENT]
    ELSE [f \in Fields |-> NONE]

NoPrompt == [built |-> FALSE, topic |-> "", academic |-> "", news |-> "",
             industry |-> "", unset |-> {}]

----------------------------------------------------------------------------
(* The tool server's initial state *)
NoFile == [exists |-> FALSE, data |-> <<>>]
NoSave == [some |-> FALSE, text |-> <<>>]
NoExec == [some |-> FALSE, text |-> <<>>]

ToolInit ==
    /\ file = NoFile
    /\ lastSaved = NoSave
    /\ executed = NoExec
    /\ reply = [error |-> FALSE, text |-> <<>>]
    /\ raised = FALSE

PipelineInit ==
    /\ variant \in Variants
    /\ topic \in Topics
    /\ state = initial_state(variant)
    /\ task = [n \in AllNodes |-> IF n = EntryPoint THEN "ready" ELSE "idle"]
    /\ pending = {}
    /\ failed = NoNode
    /\ runs = [n \in AllNodes |-> 0]
    /\ writers = [f \in Fields |-> <<>>]
    /\ prompt = NoPrompt
    /\ searchLog = {}
    /\ llmFailed = FALSE

Init == PipelineInit /\ ToolInit

----------------------------------------------------------------------------
(* The runner *)

\* the runner dispatches a node triggered for this superstep
StartNode(n) ==
    /\ failed = NoNode
    /\ task[n] = "ready"
    /\ task' = [task EXCEPT ![n] = "running"]
    /\ UNCHANGED <<variant, topic, state, pending, failed, runs, writers, prompt,
                   searchLog, llmFailed, tvars>>

\* a running node function returns its update or raises
Return(n, res, search, llm) ==
    /\ searchLog' = IF Searches(variant, n)
                    THEN searchLog \cup {<<n, IF search.error THEN "error" ELSE "ok">>}
                    ELSE searchLog
    /\ llmFailed' = (llmFailed \/ (Completes(variant, n) /\ llm = LLMFail))
    /\ IF res.raised
       THEN /\ task' = [task EXCEPT ![n] = "failed"]
            /\ failed' = n
            /\ UNCHANGED <<pending, runs>>
       ELSE /\ task' = [task EXCEPT ![n] = "done"]
            /\ pending' = pending \cup {[node |-> n, key |-> res.key, value |-> res.value]}
            /\ runs' = [runs EXCEPT ![n] = @ + 1]
            /\ UNCHANGED failed
    /\ UNCHANGED <<variant, topic, state, writers, tvars>>

Running(n) == failed = NoNode /\ n \in Nodes(variant) /\ task[n] = "running"

AcademicAgent ==
    /\ Running("academic_agent")
    /\ \E search \in SearchResults, llm \in LLMOutcomes :
          Return("academic_agent", academic_agent(variant, state, search, llm), search, llm)
    /\ UNCHANGED prompt

NewsAgent ==
    /\ Running("news_agent")
    /\ \E search \in SearchResults, llm \in LLMOutcomes :
          Return("news_agent", news_agent(variant, state, search, llm), search, llm)
    /\ UNCHANGED prompt

IndustryAgent ==
    /\ Running("industry_agent")
    /\ \E search \in SearchResults, llm \in LLMOutcomes :
          Return("industry_agent", industry_agent(variant, state, search, llm), search, llm)
    /\ UNCHANGED prompt

MergeAndSummarizeAgent ==
    /\ Running("merge_and_summarize_agent")
    /\ prompt' = [merge_prompt(variant, topic, state) EXCEPT
                      \* history: the sections no step had populated when read
                      !.unset = {f \in Reads(variant, Merge) : ~Populated(state[f])}]
    /\ \E search \in SearchResults, llm \in LLMOutcomes :
          Return("merge_and_summarize_agent",
                 merge_and_summarize_agent(variant, state, search, llm), search, llm)

OutputNode ==
    /\ Running("output_node")
    /\ \E search \in SearchResults, llm \in LLMOutcomes :
          Return("output_node", output_node(variant, state, search, llm), search, llm)
    /\ UNCHANGED prompt

\* nodes triggered by the nodes that ran in this superstep
Triggered(v, done) == {n \in Nodes(v) : \E m \in done : <<m, n>> \in Edges(v)}

\* two updates of one last-value key in one superstep
Conflict(ws) == \E a \in ws, b \in ws : a.key = b.key /\ a.node # b.node

\* the superstep ends: apply the updates, trigger the successors
EndSuperstep ==
    /\ failed = NoNode
    /\ \A n \in AllNodes : task[n] \in {"idle", "done"}
    /\ \E n \in AllNodes : task[n] = "done"
    /\ LET done == {n \in AllNodes : task[n] = "done"}
       IN IF Conflict(pending)
          THEN /\ failed' = "runner"
               /\ task' = [n \in AllNodes |-> "idle"]
               /\ UNCHANGED <<state, writers>>
          ELSE /\ state' = [f \in Fields |->
                              IF \E w \in pending : w.key = f
                              THEN (CHOOSE w \in pending : w.key = f).value
                              ELSE state[f]]
               /\ writers' = [f \in Fields |->
                              IF \E w \in pending : w.key = f
                              THEN Append(writers[f], (CHOOSE w \in pending : w.key = f).node)
                              ELSE writers[f]]
               /\ task' = [n \in AllNodes |->
                              IF n \in Triggered(variant, done) THEN "ready" ELSE "idle"]
               /\ UNCHANGED failed
    /\ pending' = {}
    /\ UNCHANGED <<variant, topic, runs, prompt, searchLog, llmFailed, tvars>>

Next ==
    \/ \E n \in AllNodes : StartNode(n)
    \/ AcademicAgent
    \/ NewsAgent
    \/ IndustryAgent
    \/ MergeAndSummarizeAgent
    \/ OutputNode
    \/ EndSuperstep

Spec == Init /\ [][Next]_vars

\* the run is over: ainvoke returned or raised
RunOver == failed # NoNode \/ \A n \in AllNodes : task[n] = "idle"


----------------------------------------------------------------------------
(* The tool server *)

\* A code string is a sequence of statements and line separators: "ok" runs
\* to completion, "raise" raises an Exception, "exit" calls sys.exit().
Chars == {"ok", "raise", "exit", "CR", "LF"}

Codes == UNION {[1..k -> Chars] : k \in 0..MaxCodeLen}

Prefixes(s) == {SubSeq(s, 1, k) : k \in 0..Len(s)}

\* os.linesep of the platform (POSIX)
linesep == <<"LF">>

RECURSIVE WriteText(_)
\* f.write in text mode: every LF becomes os.linesep
WriteText(s) ==
    IF s = <<>> THEN <<>>
    ELSE (IF Head(s) = "LF" THEN linesep ELSE <<Head(s)>>) \o WriteText(Tail(s))

RECURSIVE TranslateNewlines(_)
\* universal newlines: CR LF and a lone CR both become LF.  f.read() in text
\* mode does this, and so does the compiler on the string exec() is given.
TranslateNewlines(s) ==
    IF s = <<>> THEN <<>>
    ELSE IF Head(s) = "CR"
         THEN IF Len(s) > 1 /\ s[2] = "LF"
              THEN <<"LF">> \o TranslateNewlines(Tail(Tail(s)))
              ELSE <<"LF">> \o TranslateNewlines(Tail(s))
         ELSE <<Head(s)>> \o TranslateNewlines(Tail(s))

ReadText(data) == TranslateNewlines(data)

RECURSIVE Exec(_)
\* exec(text): statements run in order up to the first that raises
Exec(text) ==
    IF text = <<>> THEN "ok"
    ELSE IF Head(text) = "raise" THEN "Exception"
    ELSE IF Head(text) = "exit" THEN "SystemExit"
    ELSE Exec(Tail(text))

\* except Exception: SystemExit, KeyboardInterrupt and GeneratorExit derive
\* from BaseException only
CaughtByExceptException(exc) == exc = "Exception"

Ok(text) == [error |-> FALSE, text |-> text]
Error == [error |-> TRUE, text |-> <<"Error">>]

\* lines of the text run_financial_analysis returns (<fence> stands for
\* three backticks)
Lines == {"  - item", "import x", "use <fence>code<fence>"}
MaxLines == 2
Texts == UNION {[1..k -> Lines] : k \in 0..MaxLines}

\* line.strip().startswith(...): plus, bar, minus or backtick first
StartsWithMarker(line) == line = "  - item"

\* .replace(fence, ''), the fence being three backticks
RemoveFences(line) == IF line = "use <fence>code<fence>" THEN "use code" ELSE line

RECURSIVE Clean(_)
Clean(lines) ==
    IF lines = <<>> THEN <<>>
    ELSE IF StartsWithMarker(Head(lines)) THEN Clean(Tail(lines))
    ELSE <<RemoveFences(Head(lines))>> \o Clean(Tail(lines))

\* what the call of run_financial_analysis can do
CrewOutcomes ==
    {[kind |-> k, lines |-> <<>>] : k \in {"dict", "unserialisable dict", "raise"}}
    \cup {[kind |-> "text", lines |-> t] : t \in Texts}

analyze_stock ==
    /\ ~raised
    /\ \E out \in CrewOutcomes :
          reply' = CASE out.kind = "dict" -> Ok(<<"{json}">>)
                     [] out.kind = "text" -> Ok(Clean(out.lines))
                     [] OTHER -> Error
    /\ UNCHANGED <<file, lastSaved, executed, raised, pvars>>

save_code ==
    /\ ~raised
    /\ \E code \in Codes, io \in {"ok", "open fails", "write fails"} :
          CASE io = "ok" ->
                  /\ file' = [exists |-> TRUE, data |-> WriteText(code)]
                  /\ lastSaved' = [some |-> TRUE, text |-> code]
                  /\ reply' = Ok(<<"Code saved successfully">>)
            [] io = "open fails" ->
                  /\ reply' = Error
                  /\ UNCHANGED <<file, lastSaved>>
            [] OTHER ->
                  \* open(..., 'w') has truncated the file; the write stops short
                  /\ \E p \in Prefixes(WriteText(code)) :
                        /\ Len(p) < Len(WriteText(code))
                        /\ file' = [exists |-> TRUE, data |-> p]
                  /\ reply' = Error
                  /\ UNCHANGED lastSaved
    /\ executed' = NoExec
    /\ UNCHANGED <<raised, pvars>>

run_code_and_show_plot ==
    /\ ~raised
    /\ IF ~file.exists
       THEN /\ reply' = Error
            /\ UNCHANGED <<executed, raised>>
       ELSE LET text == TranslateNewlines(ReadText(file.data))
                exc == Exec(text)
            IN /\ executed' = [some |-> TRUE, text |-> text]
               /\ IF exc = "ok"
                  THEN reply' = Ok(<<"Plot generated successfully">>) /\ UNCHANGED raised
                  ELSE IF CaughtByExceptException(exc)
                       THEN reply' = Error /\ UNCHANGED raised
                       ELSE raised' = TRUE /\ UNCHANGED reply
    /\ UNCHANGED <<file, lastSaved, pvars>>

ToolNext ==
    \/ analyze_stock
    \/ save_code
    \/ run_code_and_show_plot

ToolSpec == Init /\ [][ToolNext]_vars


----------------------------------------------------------------------------
(* Properties *)

\* the step that owns each RunState field
Owner(f) ==
    CASE f = "academic" -> "academic_agent"
      [] f = "news" -> "news_agent"
      [] f = "industry" -> "industry_agent"
      [] f = "report" -> Merge
      [] OTHER -> "output_node"

Done(n) == runs[n] >= 1

Active(n) == task[n] \in {"ready", "running"}

\* C1: in both graph variants the merge step never starts executing until
\* every one of its declared predecessor steps has finished.
C1_MergeWaitsForAllPredecessors ==
    task[Merge] = "running" => \A p \in Pred(variant, Merge) : Done(p)

\* C2: each step field is written at most once in a run, and only by its
\* owning step; a populated field is never overwritten.
C2_FieldsWrittenOnce ==
    \A f \in Fields :
        /\ Len(writers[f]) <= 1
        /\ \A i \in 1..Len(writers[f]) : writers[f][i] = Owner(f)

\* C3: if the merge step's completion call fails, the run aborts and the
\* output field is set in no state of that run, before or after the failure.
C3_MergeFailureLeavesNoOutput ==
    failed = Merge => ~Populated(state["output"])

AllSearchesErrored == \A e \in searchLog : e[2] = "error"

\* C4: when every search made returns an error-tagged result and every
\* completion call succeeds, the run is never aborted, keeps making progress
\* until it is over, and is over only after every step of the graph has run
\* and with report and output set; no abort happens without a failed
\* completion call.
C4_SearchErrorsNeverAbort ==
    /\ (failed # NoNode => llmFailed)
    /\ (AllSearchesErrored /\ ~llmFailed) =>
          /\ (~RunOver => ENABLED Next)
          /\ (RunOver => /\ \A n \in Nodes(variant) : Done(n)
                         /\ Populated(state["report"])
                         /\ Populated(state["output"]))

\* a run in which both searching steps got an error and that finished
C4_Witness ==
    /\ RunOver /\ failed = NoNode
    /\ Cardinality(searchLog) = 2
    /\ AllSearchesErrored
    /\ Populated(state["report"]) /\ Populated(state["output"])

\* C5: no tool operation ever lets an exception out to its caller, whatever
\* fails inside it, the executed saved code included.
C5_ToolsNeverRaise == ~raised

\* C6: a run_code_and_show_plot executes exactly the code string of the most
\* recent successful save_code.
C6_RunExecutesLastSavedCode ==
    (executed.some /\ lastSaved.some) =>
        executed.text = TranslateNewlines(lastSaved.text)

\* C7: every field has a single writer, and a node reads a field written by
\* another node only after that writer has reached done.
C7_SingleWriterReadAfterDone ==
    /\ \A f \in Fields : \A i \in 1..Len(writers[f]) : writers[f][i] = writers[f][1]
    /\ ~Conflict(pending)
    /\ \A n \in Nodes(variant) :
          task[n] = "running" =>
              \A f \in Reads(variant, n) : Owner(f) # n => Done(Owner(f))

Placeholder(f) ==
    CASE f = "academic" -> "No academic research found."
      [] f = "news" -> "No news found."
      [] OTHER -> ""

\* C8: whenever the merge step runs, each of academic/news/industry that its
\* step has not populated is embedded in the prompt as the empty or the
\* placeholder string.
C8_UnsetFieldsEmbeddedAsPlaceholder ==
    prompt.built =>
        \A f \in prompt.unset : prompt[f] \in {"", Placeholder(f)}

\* C9: a run ends with output set or at the first failed node; once a node
\* has failed or output is set, no node is started or running.
C9_TerminalOnOutputOrFailure ==
    /\ (RunOver => (Populated(state["output"]) \/ failed # NoNode))
    /\ (~RunOver => ENABLED Next)
    /\ (Populated(state["output"]) => \A n \in AllNodes : ~Active(n))
    /\ (failed # NoNode => ~ENABLED Next)

\* C10: whenever output is set, report is set and output equals report.
C10_OutputEqualsReport ==
    Populated(state["output"]) =>
        /\ Populated(state["report"])
        /\ state["output"] = state["report"]

====
